---- MODULE Spec2Model ----
(***************************************************************************)
(* Pixelized linear inversion engine of PyAutoLens.                        *)
(*                                                                         *)
(*   auto_lens/pixelization/covariance_matrix.py                           *)
(*     create_mapping_matrix, create_d_matrix, create_covariance_matrix,   *)
(*     CovarianceMatrixGenerator, BreadthFirstSearch                       *)
(*   autolens/inversion/inversions.py                                      *)
(*     inversion_from_mapper_regularization_and_data, the dense data       *)
(*     vector and curvature routines, Inversion                            *)
(*   regularization matrix built from pixel pairs                          *)
(*     (auto_lens/pixelization/test_pixelization.py states its contract)   *)
(*                                                                         *)
(* Numbers.  The program works on Python floats.  Contribution weights are *)
(* modelled as multiples of 1/WeightDen (the integer h stands for the      *)
(* weight h/WeightDen), noise values and the search limit as whole         *)
(* numbers.  With such inputs every value the generator computes with      *)
(* Python's floor division is a whole number, held here as an integer.     *)
(***************************************************************************)
EXTENDS Integers, Sequences, FiniteSets, TLC

VARIABLES
    \* ---- create_covariance_matrix: inputs
    pixel_maps,               \* [{int: float}]  pixel -> (observation index -> weight)
    noise_vector,             \* [float]
    graph,                    \* [[int]]
    neighbour_search_limit,   \* float
    \* ---- CovarianceMatrixGenerator: fields
    calculated_covariances,   \* {(a, b): covariance}
    non_zero_covariances,     \* {(a, b): covariance}, the returned map
    neighbour_lists,          \* [[int]]
    \* ---- BreadthFirstSearch of the traversal in progress
    queue,
    visited,
    \* ---- position in create_covariance_matrix
    pc,                       \* "seed", "loop", "non_contiguous", "done"
    source_index,             \* loop variable of find_all_contiguous_covariances
    l_pos, a_pos, b_pos,      \* loop positions of find_all_non_contiguous_covariances
    \* ---- observation of the run
    calculate_calls,          \* sequence of the (a, b) calculate_covariance was invoked with
    evaluated,                \* {<<seed, candidate, result>>} yielded by bfs.neighbours()
    enqueued,                 \* {<<seed, via, pixel>>} pixel put on the queue by add_neighbours_of(via)
    contiguous_keys,          \* keys written at line 207
    \* ---- the searches of the seeds when find_contiguous_covariances is
    \*      called for them in any order and their steps take turns
    searches,                 \* seed -> [state, queue, visited, interleaved];
                              \* interleaved: the search took a step while that
                              \* of another seed was running (observation)
    \* ---- create_mapping_matrix: parameters and locals
    source_pixel_total,
    image_pixel_total,
    sub_grid_size,
    sub_to_source,            \* [int], indexed from 0
    sub_to_image,             \* [int], indexed from 0
    f,                        \* [{int: float}]; the integer n stands for n * sub_grid_fraction
    i,                        \* loop variable of line 70
    mapping_pc,               \* "idle", "loop", "done"
    \* ---- regularization matrix from pixel pairs: parameters and locals
    regularization_weights,
    no_vertices,
    pixel_pairs,              \* sequence of <<a, b>>
    regularization_matrix,    \* H
    pair_pos,                 \* pairs accumulated so far
    regularization_pc,        \* "idle", "loop", "done"
    \* ---- create_d_matrix: parameter, result and position
    image_vector,             \* [float]
    d_matrix,                 \* values of the pixel maps mapped so far
    d_pc,                     \* "idle", "map", "done"
    \* ---- inversion_from_mapper_regularization_and_data: inputs
    blurred_mapping_matrix,   \* [image pixel, reconstruction pixel] -> entry
    image,
    noise_map,
    \* ---- locals and the fields of the Inversion
    data_vector,
    flist, iflist,            \* scratch arrays of the curvature routine
    curvature_matrix,
    curvature_reg_matrix,
    solution_vector,
    image_row,                \* image_index, the loop variable of the routine in progress
    inversion_pc,             \* "idle", "data_vector", "curvature", "symmetrise",
                              \* "solve", "returned", "raised"
    raised,                   \* exceptions that reached the caller: routine -> exception
    scratch_accesses,         \* indices at which flist and iflist were read or written
    cholesky_attempts,        \* matrix name -> calls of np.linalg.cholesky
    log_det_terms             \* property name -> value returned

\* ---------------------------------------------------------------------------
\* Bounds of the model
\* ---------------------------------------------------------------------------
NumPixels == 3        \* reconstruction pixels 0 .. NumPixels-1
MaxWeight == 4        \* contribution weights are h/WeightDen, h in 1 .. MaxWeight
MaxNoise == 2         \* noise values 1 .. MaxNoise
MaxLimit == 1         \* neighbour_search_limit in 0 .. MaxLimit
MaxImagePixels == 2   \* image_pixel_total in 1 .. MaxImagePixels
MaxSubGrid == 2       \* sub_grid_size in 1 .. MaxSubGrid
WeightDen == 2

Pixels == 0 .. (NumPixels - 1)
Obs == {0, 1}         \* observation (image) pixel indices

\* ---------------------------------------------------------------------------
\* Helpers for Python containers
\* ---------------------------------------------------------------------------
\* d[k] = v on a dict
Put(d, k, v) == [x \in (DOMAIN d) \cup {k} |-> IF x = k THEN v ELSE d[x]]

EmptyDict == [x \in {} |-> 0]

RECURSIVE SumOver(_, _)
SumOver(S, fn) ==
    IF S = {} THEN 0
    ELSE LET x == CHOOSE y \in S : TRUE IN fn[x] + SumOver(S \ {x}, fn)

RECURSIVE SortedSeq(_)
SortedSeq(S) ==
    IF S = {} THEN <<>>
    ELSE LET m == CHOOSE y \in S : \A z \in S : y <= z
         IN <<m>> \o SortedSeq(S \ {m})

Range(s) == {s[n] : n \in DOMAIN s}

\* Python's x // y on non-negative x and positive y
FloorDiv(x, y) == x \div y

\* ---------------------------------------------------------------------------
\* CovarianceMatrixGenerator
\* ---------------------------------------------------------------------------
\* calculate_covariance: sum([m1[i] * m2[i] // noise[i] for i in m1.keys() if i in m2]).
\* With weights h/WeightDen the term is floor(h1*h2 / (WeightDen^2 * noise[i])).
calculate_covariance(source_index_a, source_index_b) ==
    LET mapping_dict_1 == pixel_maps[source_index_a]
        mapping_dict_2 == pixel_maps[source_index_b]
        shared == {k \in DOMAIN mapping_dict_1 : k \in DOMAIN mapping_dict_2}
    IN SumOver(shared,
               [k \in shared |->
                   FloorDiv(mapping_dict_1[k] * mapping_dict_2[k],
                            WeightDen * WeightDen * noise_vector[k])])

\* Variants of add_covariance_for_indices used to test the properties below:
\* the symmetric lookup reads the wrong key; the symmetric lookup is missing.
add_covariance_wrong_symmetric_key(cc, source_index_a, source_index_b) ==
    LET tup == <<source_index_a, source_index_b>>
        rev == <<source_index_b, source_index_a>>
        dia == <<source_index_a, source_index_a>>
    IN IF tup \in DOMAIN cc
       THEN [value |-> cc[tup], cache |-> cc, calculated |-> FALSE]
       ELSE IF rev \in DOMAIN cc /\ dia \in DOMAIN cc
       THEN [value |-> cc[dia], cache |-> Put(cc, tup, cc[dia]), calculated |-> FALSE]
       ELSE LET value == calculate_covariance(source_index_a, source_index_b)
            IN [value |-> value, cache |-> Put(cc, tup, value), calculated |-> TRUE]

add_covariance_no_symmetry(cc, source_index_a, source_index_b) ==
    LET tup == <<source_index_a, source_index_b>>
    IN IF tup \in DOMAIN cc
       THEN [value |-> cc[tup], cache |-> cc, calculated |-> FALSE]
       ELSE LET value == calculate_covariance(source_index_a, source_index_b)
            IN [value |-> value, cache |-> Put(cc, tup, value), calculated |-> TRUE]

\* Variant: the value is returned without being stored in the cache
add_covariance_not_memoised(cc, source_index_a, source_index_b) ==
    LET tup == <<source_index_a, source_index_b>>
    IN IF tup \in DOMAIN cc
       THEN [value |-> cc[tup], cache |-> cc, calculated |-> FALSE]
       ELSE [value |-> calculate_covariance(source_index_a, source_index_b),
             cache |-> cc, calculated |-> TRUE]

\* add_covariance_for_indices on the cache cc: the value returned, the cache
\* afterwards and whether calculate_covariance was invoked.
add_covariance_for_indices(cc, source_index_a, source_index_b) ==
    LET tup == <<source_index_a, source_index_b>>
        rev == <<source_index_b, source_index_a>>
    IN IF tup \in DOMAIN cc
       THEN [value |-> cc[tup], cache |-> cc, calculated |-> FALSE]
       ELSE IF rev \in DOMAIN cc
       THEN [value |-> cc[rev], cache |-> Put(cc, tup, cc[rev]), calculated |-> FALSE]
       ELSE LET value == calculate_covariance(source_index_a, source_index_b)
            IN [value |-> value, cache |-> Put(cc, tup, value), calculated |-> TRUE]

\* BreadthFirstSearch.add_neighbours_of(index) on a search with visited set vis
\* and queue q: the loop over graph[index].
RECURSIVE add_neighbours_loop(_, _, _)
add_neighbours_loop(nbrs, vis, q) ==
    IF nbrs = <<>> THEN [visited |-> vis, queue |-> q]
    ELSE LET neighbour == Head(nbrs)
         IN IF neighbour \notin vis
            THEN add_neighbours_loop(Tail(nbrs), vis \cup {neighbour}, Append(q, neighbour))
            ELSE add_neighbours_loop(Tail(nbrs), vis, q)

\* Variant: line 297 is missing, the pixel the search expands from is not
\* marked as visited
add_neighbours_of_unmarked(index, vis, q) ==
    add_neighbours_loop(graph[index], vis, q)

add_neighbours_of(index, vis, q) ==
    add_neighbours_loop(graph[index], vis \cup {index}, q)

\* Variant: the comparison is not strict
passes_threshold_not_strict(result, limit) == result >= limit

\* the threshold test of find_contiguous_covariances (line 205)
passes_threshold(result, limit) == result > limit

\* Variant: the diagonal term is recorded only when it is non-zero
record_diagonal_if_non_zero(nz, index, value) ==
    IF value > 0 THEN Put(nz, <<index, index>>, value) ELSE nz

\* line 198: non_zero_covariances[(source_index, source_index)] = value
record_diagonal(nz, index, value) == Put(nz, <<index, index>>, value)

\* Variant: line 208 outside the `if`, the search expands from every candidate
bfs_expand_always(passed, index, vis, q) == add_neighbours_of(index, vis, q)

\* the search after a candidate was compared with the limit: line 208 runs
\* only inside the `if` of line 205
bfs_after_candidate(passed, index, vis, q) ==
    IF passed THEN add_neighbours_of(index, vis, q)
    ELSE [visited |-> vis, queue |-> q]

\* Variant: the second pass compares with the search limit
is_recorded_above_limit(result) == result > neighbour_search_limit

\* Variant: the second pass records every pair it evaluates
is_recorded_whatever(result) == result >= 0

\* the test of find_all_non_contiguous_covariances (line 174)
is_recorded_non_contiguous(result) == result > 0

\* ---------------------------------------------------------------------------
\* create_covariance_matrix: inputs
\* ---------------------------------------------------------------------------
\* Undirected edges the adjacency graphs are built from: the ring over the
\* pixels (every graph on three pixels is a subset of it).
RingEdges == {{p, (p + 1) % NumPixels} : p \in Pixels} \ {{p} : p \in Pixels}

\* graph as [[int]]: the neighbour list of p, ascending
GraphOf(edges) == [p \in Pixels |-> SortedSeq({q \in Pixels : q # p /\ {p, q} \in edges})]

\* pixel_maps as [{int: float}]: pixel p contributes to the observation pixels
\* of its footprint, with weight 1 + ((p + k + shift) mod MaxWeight) at k
PixelMapsOf(footprint, shift) ==
    [p \in Pixels |-> [k \in footprint[p] |-> 1 + ((p + k + shift) % MaxWeight)]]

\* noise_vector as [float]: noise 1 at observation pixel 0, 1 + (step mod MaxNoise)
\* at observation pixel 1
NoiseVectorOf(step) == [k \in Obs |-> 1 + ((k * step) % MaxNoise)]

\* Variant: the neighbour lists are the lists of the graph itself, so that an
\* append lands in the caller's graph as well
append_neighbour_aliasing_graph(lists, g, source, index) ==
    [neighbour_lists |-> [lists EXCEPT ![source] = Append(@, index)],
     graph |-> [g EXCEPT ![source] = Append(@, index)]]

\* Variant: the append goes to the list of the candidate
append_neighbour_to_candidate(lists, g, source, index) ==
    [neighbour_lists |-> [lists EXCEPT ![index] = Append(@, source)],
     graph |-> g]

\* self.neighbour_lists[source_index].append(index) (line 206): the lists were
\* created by the constructor (line 166) and share nothing with the graph
append_neighbour(lists, g, source, index) ==
    [neighbour_lists |-> [lists EXCEPT ![source] = Append(@, index)],
     graph |-> g]

covariance_vars == <<pixel_maps, noise_vector, graph, neighbour_search_limit,
                     calculated_covariances, non_zero_covariances, neighbour_lists,
                     queue, visited, pc, source_index, l_pos, a_pos, b_pos,
                     calculate_calls, evaluated, enqueued, contiguous_keys, searches>>

mapping_vars == <<source_pixel_total, image_pixel_total, sub_grid_size,
                  sub_to_source, sub_to_image, f, i, mapping_pc>>

regularization_vars == <<regularization_weights, no_vertices, pixel_pairs,
                         regularization_matrix, pair_pos, regularization_pc>>

d_matrix_vars == <<image_vector, d_matrix, d_pc>>

inversion_vars == <<blurred_mapping_matrix, image, noise_map, data_vector, flist, iflist,
                    curvature_matrix, curvature_reg_matrix, solution_vector, image_row,
                    inversion_pc, raised, scratch_accesses, cholesky_attempts,
                    log_det_terms>>

vars == <<covariance_vars, mapping_vars, regularization_vars, d_matrix_vars,
          inversion_vars>>

\* create_covariance_matrix is not running
CovarianceIdle ==
    /\ pixel_maps = <<>>
    /\ noise_vector = <<>>
    /\ graph = <<>>
    /\ neighbour_search_limit = 0
    /\ calculated_covariances = EmptyDict
    /\ non_zero_covariances = EmptyDict
    /\ neighbour_lists = <<>>
    /\ queue = <<>>
    /\ visited = {}
    /\ pc = "idle"
    /\ source_index = 0
    /\ l_pos = 0 /\ a_pos = 1 /\ b_pos = 2
    /\ calculate_calls = <<>>
    /\ evaluated = {}
    /\ enqueued = {}
    /\ contiguous_keys = {}
    /\ searches = <<>>

\* create_mapping_matrix is not running
MappingIdle ==
    /\ source_pixel_total = 0
    /\ image_pixel_total = 0
    /\ sub_grid_size = 1
    /\ sub_to_source = <<>>
    /\ sub_to_image = <<>>
    /\ f = <<>>
    /\ i = 0
    /\ mapping_pc = "idle"

\* the regularization matrix is not being built
RegularizationIdle ==
    /\ regularization_weights = <<>>
    /\ no_vertices = <<>>
    /\ pixel_pairs = <<>>
    /\ regularization_matrix = <<>>
    /\ pair_pos = 0
    /\ regularization_pc = "idle"

\* create_d_matrix is not running
DMatrixIdle ==
    /\ image_vector = <<>>
    /\ d_matrix = <<>>
    /\ d_pc = "idle"

\* no inversion is being made
InversionIdle ==
    /\ blurred_mapping_matrix = <<>>
    /\ image = <<>>
    /\ noise_map = <<>>
    /\ data_vector = <<>>
    /\ flist = <<>> /\ iflist = <<>>
    /\ curvature_matrix = <<>>
    /\ curvature_reg_matrix = <<>>
    /\ solution_vector = <<>>
    /\ image_row = 0
    /\ inversion_pc = "idle"
    /\ raised = EmptyDict
    /\ scratch_accesses = {}
    /\ cholesky_attempts = EmptyDict
    /\ log_det_terms = EmptyDict

inputs == <<pixel_maps, noise_vector, graph, neighbour_search_limit>>

\* CovarianceMatrixGenerator.__init__ (lines 154-166)
Init ==
    /\ \E footprint \in [Pixels -> SUBSET Obs], shift \in 0 .. (MaxWeight - 1) :
           pixel_maps = PixelMapsOf(footprint, shift)
    /\ \E step \in 0 .. (MaxNoise - 1) : noise_vector = NoiseVectorOf(step)
    /\ \E edges \in SUBSET RingEdges : graph = GraphOf(edges)
    /\ neighbour_search_limit \in 0 .. MaxLimit
    /\ calculated_covariances = EmptyDict
    /\ non_zero_covariances = EmptyDict
    /\ neighbour_lists = [p \in Pixels |-> <<>>]
    /\ queue = <<>>
    /\ visited = {}
    /\ pc = IF NumPixels > 0 THEN "seed" ELSE "non_contiguous"
    /\ source_index = 0
    /\ l_pos = 0 /\ a_pos = 1 /\ b_pos = 2
    /\ calculate_calls = <<>>
    /\ evaluated = {}
    /\ enqueued = {}
    /\ contiguous_keys = {}
    /\ searches = <<>>
    /\ MappingIdle
    /\ RegularizationIdle
    /\ DMatrixIdle
    /\ InversionIdle

\* `for l in self.neighbour_lists`: the first list at or after position from
\* that has two entries to pair, NumPixels when there is none
FirstList(lists, from) ==
    LET candidates == {p \in Pixels : p >= from /\ Len(lists[p]) >= 2}
    IN IF candidates = {} THEN NumPixels
       ELSE CHOOSE p \in candidates : \A q \in candidates : p <= q

\* find_contiguous_covariances(source_index), lines 198-201: the diagonal term
\* and the start of the search
FindContiguousStart ==
    /\ pc = "seed"
    /\ LET r == add_covariance_for_indices(calculated_covariances, source_index, source_index)
           bfs == add_neighbours_of(source_index, {}, <<>>)
       IN /\ calculated_covariances' = r.cache
          /\ non_zero_covariances' =
                 record_diagonal(non_zero_covariances, source_index, r.value)
          /\ calculate_calls' = IF r.calculated
                                 THEN Append(calculate_calls, <<source_index, source_index>>)
                                 ELSE calculate_calls
          /\ queue' = bfs.queue
          /\ visited' = bfs.visited
          /\ enqueued' = enqueued \cup
                 {<<source_index, source_index, bfs.queue[n]>> : n \in DOMAIN bfs.queue}
    /\ pc' = "loop"
    /\ UNCHANGED <<mapping_vars, regularization_vars, d_matrix_vars, inversion_vars>>
    /\ UNCHANGED searches
    /\ UNCHANGED <<inputs, neighbour_lists, source_index, l_pos, a_pos, b_pos,
                   evaluated, contiguous_keys>>

\* one iteration of `for index in bfs.neighbours()`, lines 203-208
FindContiguousStep ==
    /\ pc = "loop"
    /\ queue # <<>>
    /\ LET index == Head(queue)
           r == add_covariance_for_indices(calculated_covariances, source_index, index)
           result == r.value
           passed == passes_threshold(result, neighbour_search_limit)
           bfs == bfs_after_candidate(passed, index, visited, Tail(queue))
       IN /\ calculated_covariances' = r.cache
          /\ calculate_calls' = IF r.calculated
                                 THEN Append(calculate_calls, <<source_index, index>>)
                                 ELSE calculate_calls
          /\ evaluated' = evaluated \cup {<<source_index, index, result>>}
          /\ queue' = bfs.queue
          /\ visited' = bfs.visited
          /\ enqueued' = enqueued \cup
                 {<<source_index, index, bfs.queue[n]>> :
                     n \in (Len(queue) .. Len(bfs.queue))}
          /\ IF passed
             THEN /\ LET appended == append_neighbour(neighbour_lists, graph,
                                                      source_index, index)
                     IN /\ neighbour_lists' = appended.neighbour_lists
                        /\ graph' = appended.graph
                  /\ non_zero_covariances' =
                        Put(non_zero_covariances, <<source_index, index>>, result)
                  /\ contiguous_keys' = contiguous_keys \cup {<<source_index, index>>}
             ELSE UNCHANGED <<neighbour_lists, graph, non_zero_covariances,
                              contiguous_keys>>
    /\ UNCHANGED <<mapping_vars, regularization_vars, d_matrix_vars, inversion_vars>>
    /\ UNCHANGED searches
    /\ UNCHANGED <<pixel_maps, noise_vector, neighbour_search_limit,
                   pc, source_index, l_pos, a_pos, b_pos>>

\* the search of source_index is exhausted: the next index of
\* find_all_contiguous_covariances (line 183), or on to line 132
FindContiguousEnd ==
    /\ pc = "loop"
    /\ queue = <<>>
    /\ IF source_index + 1 < NumPixels
       THEN /\ source_index' = source_index + 1
            /\ pc' = "seed"
            /\ UNCHANGED l_pos
       ELSE /\ pc' = "non_contiguous"
            /\ l_pos' = FirstList(neighbour_lists, 0)
            /\ UNCHANGED source_index
    /\ UNCHANGED <<mapping_vars, regularization_vars, d_matrix_vars, inversion_vars>>
    /\ UNCHANGED searches
    /\ UNCHANGED <<inputs, calculated_covariances, non_zero_covariances, neighbour_lists,
                   queue, visited, a_pos, b_pos,
                   calculate_calls, evaluated, enqueued, contiguous_keys>>

\* one iteration of the loops of find_all_non_contiguous_covariances on which
\* a != b (lines 169-175); the iterations with a = b do nothing and are passed over
NonContiguousStep ==
    /\ pc = "non_contiguous"
    /\ l_pos < NumPixels
    /\ LET l == neighbour_lists[l_pos]
           a == l[a_pos]
           b == l[b_pos]
           r == add_covariance_for_indices(calculated_covariances, a, b)
           result == r.value
           b_next == IF b_pos + 1 = a_pos THEN b_pos + 2 ELSE b_pos + 1
       IN /\ a # b
          /\ calculated_covariances' = r.cache
          /\ calculate_calls' = IF r.calculated
                                 THEN Append(calculate_calls, <<a, b>>)
                                 ELSE calculate_calls
          /\ non_zero_covariances' =
                 IF is_recorded_non_contiguous(result)
                 THEN Put(non_zero_covariances, <<a, b>>, result)
                 ELSE non_zero_covariances
          /\ IF b_next <= Len(l)
             THEN /\ b_pos' = b_next
                  /\ UNCHANGED <<l_pos, a_pos>>
             ELSE IF a_pos + 1 <= Len(l)
             THEN /\ a_pos' = a_pos + 1
                  /\ b_pos' = 1
                  /\ UNCHANGED l_pos
             ELSE /\ l_pos' = FirstList(neighbour_lists, l_pos + 1)
                  /\ a_pos' = 1
                  /\ b_pos' = 2
    /\ UNCHANGED <<mapping_vars, regularization_vars, d_matrix_vars, inversion_vars>>
    /\ UNCHANGED searches
    /\ UNCHANGED <<inputs, neighbour_lists, queue, visited, pc, source_index,
                   evaluated, enqueued, contiguous_keys>>

\* create_covariance_matrix returns generator.non_zero_covariances (line 134)
Return ==
    /\ pc = "non_contiguous"
    /\ l_pos >= NumPixels
    /\ pc' = "done"
    /\ UNCHANGED <<mapping_vars, regularization_vars, d_matrix_vars, inversion_vars>>
    /\ UNCHANGED searches
    /\ UNCHANGED <<inputs, calculated_covariances, non_zero_covariances, neighbour_lists,
                   queue, visited, source_index, l_pos, a_pos, b_pos,
                   calculate_calls, evaluated, enqueued, contiguous_keys>>

Next ==
    \/ FindContiguousStart
    \/ FindContiguousStep
    \/ FindContiguousEnd
    \/ NonContiguousStep
    \/ Return

Spec == Init /\ [][Next]_vars

\* ---------------------------------------------------------------------------
\* Properties of create_covariance_matrix
\* ---------------------------------------------------------------------------
Keys == DOMAIN non_zero_covariances

\* a common multiple of the noise values 1 .. MaxNoise
RECURSIVE Factorial(_)
Factorial(n) == IF n <= 1 THEN 1 ELSE n * Factorial(n - 1)
NoiseScale == Factorial(MaxNoise)

\* F[a,b] = sum over the shared k of pixel_maps[a][k] * pixel_maps[b][k] / noise[k]
\* with true division, multiplied by WeightDen^2 * NoiseScale (a whole number)
TrueCovarianceScaled(a, b) ==
    LET shared == (DOMAIN pixel_maps[a]) \cap (DOMAIN pixel_maps[b])
    IN SumOver(shared,
               [k \in shared |->
                   pixel_maps[a][k] * pixel_maps[b][k] * (NoiseScale \div noise_vector[k])])

\* C1: every recorded value equals the sum over the shared observation indices
\* of pixel_maps[i][k] * pixel_maps[j][k] / noise_vector[k] with true division.
C1_TrueDivision ==
    \A key \in Keys :
        non_zero_covariances[key] * WeightDen * WeightDen * NoiseScale
            = TrueCovarianceScaled(key[1], key[2])

C3_SymmetricKeys ==
    pc = "done" => \A key \in Keys : <<key[2], key[1]>> \in Keys

\* C4: whenever (i, j) and (j, i) are both recorded, their values are equal.
C4_SymmetricValues ==
    \A key \in Keys :
        <<key[2], key[1]>> \in Keys =>
            non_zero_covariances[key] = non_zero_covariances[<<key[2], key[1]>>]

C4_Witness ==
    \E key \in Keys :
        /\ key[1] # key[2]
        /\ <<key[2], key[1]>> \in Keys
        /\ non_zero_covariances[key] > 0
        /\ non_zero_covariances[key] # non_zero_covariances[<<key[1], key[1]>>]

\* C5: during one run calculate_covariance is invoked at most once for each
\* unordered pair {a, b}.
C5_CalculatedOnce ==
    \A m, n \in DOMAIN calculate_calls :
        m # n => {calculate_calls[m][1], calculate_calls[m][2]}
                    # {calculate_calls[n][1], calculate_calls[n][2]}

C5_Witness ==
    /\ pc = "done"
    /\ \E a, b \in Pixels :
          /\ a # b
          /\ <<a, b>> \in DOMAIN calculated_covariances
          /\ <<b, a>> \in DOMAIN calculated_covariances
          /\ Cardinality({n \in DOMAIN calculate_calls :
                            {calculate_calls[n][1], calculate_calls[n][2]} = {a, b}}) = 1

\* C6: a candidate whose covariance with the seed equals neighbour_search_limit
\* is rejected by the contiguous pass: the pass does not record the pair, does
\* not append the candidate to the seed's neighbour list and enqueues nothing
\* on its account.
C6_StrictThreshold ==
    \A e \in evaluated :
        e[3] = neighbour_search_limit =>
            /\ <<e[1], e[2]>> \notin contiguous_keys
            /\ e[2] \notin Range(neighbour_lists[e[1]])
            /\ \A q \in enqueued : ~(q[1] = e[1] /\ q[2] = e[2])

C6_Witness ==
    /\ pc = "done"
    /\ neighbour_search_limit > 0
    /\ \E e \in evaluated :
          /\ e[3] = neighbour_search_limit
          /\ \E x \in Range(graph[e[2]]) :
                /\ x # e[1]
                /\ \A g \in evaluated : ~(g[1] = e[1] /\ g[2] = x)

\* C7: in the traversal seeded at s a pixel is evaluated against s only if it
\* is adjacent to s or to a pixel that passed the threshold in that traversal;
\* nothing is enqueued on account of a rejected candidate.
C7_MonotonicPruning ==
    /\ \A e \in evaluated :
          \E q \in enqueued : q[1] = e[1] /\ q[3] = e[2]
    /\ \A q \in enqueued :
          /\ q[3] \in Range(graph[q[2]])
          /\ \/ q[2] = q[1]
             \/ \E e \in evaluated :
                   /\ e[1] = q[1]
                   /\ e[2] = q[2]
                   /\ e[3] > neighbour_search_limit

C7_Witness ==
    /\ pc = "done"
    /\ \E e \in evaluated :
          /\ e[3] <= neighbour_search_limit
          /\ \E x \in Range(graph[e[2]]) :
                /\ x # e[1]
                /\ \A g \in evaluated : ~(g[1] = e[1] /\ g[2] = x)
    /\ \E q \in enqueued : q[2] # q[1]

\* C8: after the return, for every pixel s and distinct a, b of s's neighbour
\* list with covariance(a, b) > 0, (a, b) and (b, a) are keys of the map holding
\* that covariance; the second pass starts after the contiguous pass of the
\* last seed and changes no neighbour list.
C8_State ==
    /\ pc = "done" =>
          \A s \in Pixels : \A a, b \in Range(neighbour_lists[s]) :
              (a # b /\ calculate_covariance(a, b) > 0) =>
                  /\ <<a, b>> \in Keys
                  /\ <<b, a>> \in Keys
                  /\ non_zero_covariances[<<a, b>>] = calculate_covariance(a, b)
                  /\ non_zero_covariances[<<b, a>>] = calculate_covariance(a, b)
    /\ pc \in {"non_contiguous", "done"} =>
          /\ source_index = NumPixels - 1
          /\ queue = <<>>
          /\ \A s \in Pixels : <<s, s>> \in Keys

C8_Step ==
    pc \in {"non_contiguous", "done"} => neighbour_lists' = neighbour_lists

C8_NonContiguousPass == []C8_State /\ [][C8_Step]_vars

C8_Witness ==
    /\ pc = "done"
    /\ \E s \in Pixels : \E a, b \in Range(neighbour_lists[s]) :
          /\ a # b
          /\ calculate_covariance(a, b) > 0
          /\ <<a, b>> \notin contiguous_keys
          /\ <<a, b>> \in Keys

\* ---------------------------------------------------------------------------
\* create_mapping_matrix
\* ---------------------------------------------------------------------------
\* line 65
total_sub_pixels == image_pixel_total * sub_grid_size * sub_grid_size

\* sub_to_source: runs of `run` consecutive sub-pixels go to the source pixels
\* r0, r0 + step, r0 + 2 * step, ... (mod the number of source pixels)
SubToSourceOf(total, pixels, r0, step, run) ==
    [k \in 0 .. (total - 1) |-> (r0 + step * (k \div run)) % pixels]

\* sub_to_image: either the sub-pixels of an image pixel are consecutive
\* (sub_grid_size^2 of them each), or the image pixels take turns
SubToImageOf(total, images, size, layout) ==
    [k \in 0 .. (total - 1) |->
        IF layout = "blocks" THEN k \div (size * size) ELSE k % images]

\* Variant: an entry that exists is overwritten instead of incremented
overwrite_sub_pixel(row, image_index) == Put(row, image_index, 1)

\* lines 71-74 on the dict row = f[sub_to_source[i]]; sub_grid_fraction is
\* the unit, so the entry n stands for n * (1.0 / sub_grid_size) ** 2
accumulate_sub_pixel(row, image_index) ==
    IF image_index \in DOMAIN row
    THEN Put(row, image_index, row[image_index] + 1)
    ELSE Put(row, image_index, 1)

\* the call, lines 65-68
MappingInit ==
    /\ source_pixel_total = NumPixels
    /\ image_pixel_total \in 1 .. MaxImagePixels
    /\ sub_grid_size \in 1 .. MaxSubGrid
    /\ \E r0 \in 0 .. (source_pixel_total - 1), step \in 0 .. (source_pixel_total - 1),
          run \in 1 .. (sub_grid_size * sub_grid_size) :
           sub_to_source =
               SubToSourceOf(total_sub_pixels, source_pixel_total, r0, step, run)
    /\ \E layout \in {"blocks", "turns"} :
           sub_to_image =
               SubToImageOf(total_sub_pixels, image_pixel_total, sub_grid_size, layout)
    /\ f = [r \in 0 .. (source_pixel_total - 1) |-> EmptyDict]
    /\ i = 0
    /\ mapping_pc = "loop"
    /\ CovarianceIdle
    /\ RegularizationIdle
    /\ DMatrixIdle
    /\ InversionIdle

\* Python's a[k] on a list (or array) of n entries: a negative k counts from
\* the end, and k outside -n .. n-1 raises IndexError
ListIndexInRange(n, k) == (0 - n) <= k /\ k < n
ListIndex(n, k) == IF k < 0 THEN n + k ELSE k

\* the subscripts evaluated by iteration i (lines 71-74) are all in range:
\* sub_to_image[i], sub_to_source[i] and f[sub_to_source[i]].  The key
\* sub_to_image[i] of the dict is not a subscript of a list.
SubscriptsInRange ==
    /\ ListIndexInRange(Cardinality(DOMAIN sub_to_image), i)
    /\ ListIndexInRange(Cardinality(DOMAIN sub_to_source), i)
    /\ ListIndexInRange(Cardinality(DOMAIN f), sub_to_source[i])

\* one iteration of `for i in range(total_sub_pixels)`, lines 70-74
MappingStep ==
    /\ mapping_pc = "loop"
    /\ i < total_sub_pixels
    /\ SubscriptsInRange
    /\ f' = [f EXCEPT ![ListIndex(Cardinality(DOMAIN f), sub_to_source[i])] =
                          accumulate_sub_pixel(@, sub_to_image[i])]
    /\ i' = i + 1
    /\ UNCHANGED <<source_pixel_total, image_pixel_total, sub_grid_size,
                   sub_to_source, sub_to_image, mapping_pc>>
    /\ UNCHANGED <<covariance_vars, regularization_vars, d_matrix_vars, inversion_vars>>

\* return f, line 76
MappingReturn ==
    /\ mapping_pc = "loop"
    /\ i >= total_sub_pixels
    /\ mapping_pc' = "done"
    /\ UNCHANGED <<source_pixel_total, image_pixel_total, sub_grid_size,
                   sub_to_source, sub_to_image, f, i>>
    /\ UNCHANGED <<covariance_vars, regularization_vars, d_matrix_vars, inversion_vars>>

\* an iteration whose subscript is out of range: IndexError, nothing returned
MappingRaise ==
    /\ mapping_pc = "loop"
    /\ i < total_sub_pixels
    /\ ~SubscriptsInRange
    /\ mapping_pc' = "IndexError"
    /\ UNCHANGED <<source_pixel_total, image_pixel_total, sub_grid_size,
                   sub_to_source, sub_to_image, f, i>>
    /\ UNCHANGED <<covariance_vars, regularization_vars, d_matrix_vars, inversion_vars>>

\* on arguments that meet the preconditions no subscript is out of range
MappingNext == MappingStep \/ MappingReturn

SpecMapping == MappingInit /\ [][MappingNext]_vars

\* the number of sub-samples assigned to source pixel r and image pixel o
SubSamples(r, o) ==
    Cardinality({k \in 0 .. (total_sub_pixels - 1) :
                    sub_to_source[k] = r /\ sub_to_image[k] = o})

PairsOf(edges, flipped) ==
    LET ordered == SortedSeq({NumPixels * z[1] + z[2] :
                                  z \in {y \in Pixels \X Pixels :
                                             y[1] < y[2] /\ {y[1], y[2]} \in edges}})
    IN [n \in DOMAIN ordered |->
           LET p == ordered[n] \div NumPixels
               q == ordered[n] % NumPixels
           IN IF flipped THEN <<q, p>> ELSE <<p, q>>]

\* no_vertices: the number of pairs a pixel appears in
VerticesOf(pairs) ==
    [p \in Pixels |-> Cardinality({n \in DOMAIN pairs : p \in {pairs[n][1], pairs[n][2]}})]

ZeroMatrix == [x \in Pixels \X Pixels |-> 0]

\* Variant: the off-diagonal entries take the term of the first pixel only
accumulate_pair_unbalanced(H, weights, a, b) ==
    LET wa == weights[a] * weights[a]
        wb == weights[b] * weights[b]
    IN [x \in DOMAIN H |->
           IF x = <<a, a>> \/ x = <<b, b>> THEN H[x] + wa + wb
           ELSE IF x = <<a, b>> \/ x = <<b, a>> THEN H[x] - wa
           ELSE H[x]]

\* Variant: a pair contributes in its stated direction only
accumulate_pair_one_direction(H, weights, a, b) ==
    LET wa == weights[a] * weights[a]
    IN [x \in DOMAIN H |->
           IF x = <<a, a>> \/ x = <<b, b>> THEN H[x] + wa
           ELSE IF x = <<a, b>> \/ x = <<b, a>> THEN H[x] - wa
           ELSE H[x]]

\* Variant: both directions of a pair use the weight of its first pixel
accumulate_pair_first_weight(H, weights, a, b) ==
    LET wa == weights[a] * weights[a]
    IN [x \in DOMAIN H |->
           IF x = <<a, a>> \/ x = <<b, b>> THEN H[x] + wa + wa
           ELSE IF x = <<a, b>> \/ x = <<b, a>> THEN H[x] - wa - wa
           ELSE H[x]]

\* the accumulation for one pair (a, b):
\*   H[a,a] += w[a]^2, H[b,b] += w[a]^2, H[a,b] -= w[a]^2, H[b,a] -= w[a]^2
\*   and the mirrored terms with w[b]^2
accumulate_pair(H, weights, a, b) ==
    LET wa == weights[a] * weights[a]
        wb == weights[b] * weights[b]
    IN [x \in DOMAIN H |->
           IF x = <<a, a>> \/ x = <<b, b>> THEN H[x] + wa + wb
           ELSE IF x = <<a, b>> \/ x = <<b, a>> THEN H[x] - wa - wb
           ELSE H[x]]

RegularizationInit ==
    /\ regularization_weights \in [Pixels -> 1 .. MaxWeight]
    /\ \E edges \in SUBSET RingEdges, flipped \in BOOLEAN :
           pixel_pairs = PairsOf(edges, flipped)
    /\ no_vertices = VerticesOf(pixel_pairs)
    /\ regularization_matrix = ZeroMatrix
    /\ pair_pos = 0
    /\ regularization_pc = "loop"
    /\ CovarianceIdle
    /\ MappingIdle
    /\ DMatrixIdle
    /\ InversionIdle

\* the accumulation of the next pair
RegularizationStep ==
    /\ regularization_pc = "loop"
    /\ pair_pos < Len(pixel_pairs)
    /\ LET pair == pixel_pairs[pair_pos + 1]
       IN regularization_matrix' =
              accumulate_pair(regularization_matrix, regularization_weights,
                              pair[1], pair[2])
    /\ pair_pos' = pair_pos + 1
    /\ UNCHANGED <<regularization_weights, no_vertices, pixel_pairs, regularization_pc>>
    /\ UNCHANGED <<covariance_vars, mapping_vars, d_matrix_vars, inversion_vars>>

\* the matrix is returned
RegularizationReturn ==
    /\ regularization_pc = "loop"
    /\ pair_pos >= Len(pixel_pairs)
    /\ regularization_pc' = "done"
    /\ UNCHANGED <<regularization_weights, no_vertices, pixel_pairs,
                   regularization_matrix, pair_pos>>
    /\ UNCHANGED <<covariance_vars, mapping_vars, d_matrix_vars, inversion_vars>>

RegularizationNext == RegularizationStep \/ RegularizationReturn

SpecRegularization == RegularizationInit /\ [][RegularizationNext]_vars

\* The explicit difference matrices of the tests.  The rows: for the n-th pair
\* (a, b) one row with -weight[a] at column a and +weight[a] at column b, and
\* one row with -weight[b] at column b and +weight[b] at column a.
DifferenceRows ==
    [n \in 1 .. (2 * Len(pixel_pairs)) |->
        LET pair == pixel_pairs[(n + 1) \div 2]
            from == IF n % 2 = 1 THEN pair[1] ELSE pair[2]
            to == IF n % 2 = 1 THEN pair[2] ELSE pair[1]
        IN [c \in Pixels |->
               IF c = from THEN 0 - regularization_weights[from]
               ELSE IF c = to THEN regularization_weights[from]
               ELSE 0]]

\* The rows are laid out in square B matrices of NumPixels rows each, the
\* last one filled up with zero rows.
NumBMatrices == (2 * Len(pixel_pairs) + NumPixels - 1) \div NumPixels

BMatrix(m) ==
    [r \in 1 .. NumPixels |->
        LET n == (m - 1) * NumPixels + r
        IN IF n <= 2 * Len(pixel_pairs) THEN DifferenceRows[n]
           ELSE [c \in Pixels |-> 0]]

\* np.matmul(B.T, B)[c, d]
BtB(B, c, d) == SumOver(DOMAIN B, [r \in DOMAIN B |-> B[r][c] * B[r][d]])

\* the sum of the matrices B^T B
SumBtB(c, d) ==
    SumOver(1 .. NumBMatrices, [m \in 1 .. NumBMatrices |-> BtB(BMatrix(m), c, d)])

\* C10: the regularization matrix built directly from the pairs is entrywise
\* identical to the sum of B^T B over the explicit difference matrices B.
C10_EqualsBtB ==
    regularization_pc = "done" =>
        \A c, d \in Pixels : regularization_matrix[<<c, d>>] = SumBtB(c, d)

C10_Witness ==
    /\ regularization_pc = "done"
    /\ Len(pixel_pairs) >= 2
    /\ NumBMatrices >= 2
    /\ \E p, q \in Pixels : regularization_weights[p] # regularization_weights[q]
    /\ \E c, d \in Pixels : c # d /\ regularization_matrix[<<c, d>>] < 0
    /\ \A c, d \in Pixels : regularization_matrix[<<c, d>>] = SumBtB(c, d)

\* ---------------------------------------------------------------------------
\* The regularization scenario of the tests (test_pixelization.py, lines
\* 113-137): 3 pixels, the single pair (0, 1), unit weights
\* ---------------------------------------------------------------------------
SinglePairScenario ==
    /\ regularization_pc = "done"
    /\ NumPixels = 3
    /\ pixel_pairs = <<(<<0, 1>>)>>
    /\ no_vertices = [p \in Pixels |-> IF p = 2 THEN 0 ELSE 1]
    /\ \A p \in Pixels : regularization_weights[p] = 1

MatrixOfRows(rows) == [x \in Pixels \X Pixels |-> rows[x[1] + 1][x[2] + 1]]

\* C11 as stated: for 3 pixels, the single pair (0, 1) and unit weights the
\* regularization matrix is [[1, -1, 0], [-1, 1, 0], [0, 0, 0]].
C11_SingleDirection ==
    SinglePairScenario =>
        regularization_matrix =
            MatrixOfRows(<< <<1, -1, 0>>, <<-1, 1, 0>>, <<0, 0, 0>> >>)

\* C11 amended: for 3 pixels, the single pair (0, 1) and unit weights the
\* regularization matrix is [[2, -2, 0], [-2, 2, 0], [0, 0, 0]]: the pair
\* contributes in both directions.
C11_BothDirections ==
    SinglePairScenario =>
        regularization_matrix =
            MatrixOfRows(<< <<2, -2, 0>>, <<-2, 2, 0>>, <<0, 0, 0>> >>)

C11_Witness ==
    /\ SinglePairScenario
    /\ regularization_matrix[<<0, 0>>] = 2
    /\ regularization_matrix[<<0, 1>>] = -2
    /\ regularization_matrix[<<2, 2>>] = 0

\* ---------------------------------------------------------------------------
\* The frame of a create_covariance_matrix call
\* ---------------------------------------------------------------------------
\* C20: no step of a create_covariance_matrix call (either pass) modifies
\* pixel_maps, noise_vector or graph (nor the search limit, nor anything
\* outside the generator): only calculated_covariances, non_zero_covariances,
\* neighbour_lists, the BFS queue and the visited set change.
C20_InputsReadOnly ==
    [][/\ pixel_maps' = pixel_maps
       /\ noise_vector' = noise_vector
       /\ graph' = graph
       /\ neighbour_search_limit' = neighbour_search_limit
       /\ UNCHANGED <<mapping_vars, regularization_vars, d_matrix_vars,
                      inversion_vars>>]_vars

C20_Witness ==
    /\ pc = "done"
    /\ \E p \in Pixels : Len(graph[p]) = 2
    /\ \E p \in Pixels : Len(neighbour_lists[p]) = 2
    /\ calculated_covariances # EmptyDict
    /\ Keys \ contiguous_keys # {}
    /\ visited # {}

\* ---------------------------------------------------------------------------
\* create_d_matrix (covariance_matrix.py, lines 79-105)
\* ---------------------------------------------------------------------------
\* image_vector: the value 1 + ((k + offset) mod MaxWeight) at observation k
ImageVectorOf(offset) == [k \in Obs |-> 1 + ((k + offset) % MaxWeight)]

\* value_for_pixel_map: value += image_vector[index] * pixel_map[index]
\* // noise_vector[index] for every index of the pixel map.  With the weight
\* h/WeightDen the term is floor(image * h / (WeightDen * noise)).
value_for_pixel_map(pixel_map) ==
    SumOver(DOMAIN pixel_map,
            [index \in DOMAIN pixel_map |->
                FloorDiv(image_vector[index] * pixel_map[index],
                         WeightDen * noise_vector[index])])

DMatrixInit ==
    /\ \E footprint \in [Pixels -> SUBSET Obs], shift \in 0 .. (MaxWeight - 1) :
           pixel_maps = PixelMapsOf(footprint, shift)
    /\ \E step \in 0 .. (MaxNoise - 1) : noise_vector = NoiseVectorOf(step)
    /\ \E offset \in 0 .. 1 : image_vector = ImageVectorOf(offset)
    /\ d_matrix = <<>>
    /\ d_pc = "map"
    /\ graph = <<>>
    /\ neighbour_search_limit = 0
    /\ calculated_covariances = EmptyDict
    /\ non_zero_covariances = EmptyDict
    /\ neighbour_lists = <<>>
    /\ queue = <<>>
    /\ visited = {}
    /\ pc = "idle"
    /\ source_index = 0
    /\ l_pos = 0 /\ a_pos = 1 /\ b_pos = 2
    /\ calculate_calls = <<>>
    /\ evaluated = {}
    /\ enqueued = {}
    /\ contiguous_keys = {}
    /\ searches = <<>>
    /\ MappingIdle
    /\ RegularizationIdle
    /\ InversionIdle

\* map(value_for_pixel_map, pixel_maps) reaches the next pixel map
DMatrixMap ==
    /\ d_pc = "map"
    /\ Len(d_matrix) < NumPixels
    /\ d_matrix' = Append(d_matrix, value_for_pixel_map(pixel_maps[Len(d_matrix)]))
    /\ UNCHANGED <<image_vector, d_pc>>
    /\ UNCHANGED <<covariance_vars, mapping_vars, regularization_vars, inversion_vars>>

\* the list is returned
DMatrixReturn ==
    /\ d_pc = "map"
    /\ Len(d_matrix) = NumPixels
    /\ d_pc' = "done"
    /\ UNCHANGED <<image_vector, d_matrix>>
    /\ UNCHANGED <<covariance_vars, mapping_vars, regularization_vars, inversion_vars>>

DMatrixNext == DMatrixMap \/ DMatrixReturn

SpecDMatrix == DMatrixInit /\ [][DMatrixNext]_vars

\* d[r] = sum over the o of pixel_maps[r] of image_vector[o] * pixel_maps[r][o]
\* / noise_vector[o]^2 with true division, multiplied by
\* WeightDen * NoiseScale^2 (a whole number)
TrueDataScaled(r) ==
    SumOver(DOMAIN pixel_maps[r],
            [o \in DOMAIN pixel_maps[r] |->
                image_vector[o] * pixel_maps[r][o]
                    * (NoiseScale \div noise_vector[o]) * (NoiseScale \div noise_vector[o])])

\* C14: create_d_matrix returns, for every reconstruction pixel r, the sum over
\* the observation indices o of pixel_maps[r] of
\* image_vector[o] * pixel_maps[r][o] / noise_vector[o]^2.
C14_DataVector ==
    d_pc = "done" =>
        \A r \in Pixels :
            d_matrix[r + 1] * WeightDen * NoiseScale * NoiseScale = TrueDataScaled(r)

\* ---------------------------------------------------------------------------
\* create_mapping_matrix on arguments that may break its preconditions
\* ---------------------------------------------------------------------------
\* the array a with the entry at position pos replaced by value (no entry is
\* replaced when pos is not a position of a)
WithEntry(a, pos, value) == [k \in DOMAIN a |-> IF k = pos THEN value ELSE a[k]]

\* the array a cut or extended to n entries, the new entries being 0
WithLength(a, n) == [k \in 0 .. (n - 1) |-> IF k \in DOMAIN a THEN a[k] ELSE 0]

\* the call, lines 65-68.  The arrays are those of a call that meets the
\* preconditions, with at most one entry of each replaced by an index next to
\* or beyond its range and the length of each off by at most one.
MappingAnyInit ==
    /\ source_pixel_total = NumPixels
    /\ image_pixel_total \in 1 .. MaxImagePixels
    /\ sub_grid_size \in 1 .. MaxSubGrid
    /\ \E r0 \in 0 .. (source_pixel_total - 1),
          pos \in {0 - 1, 0, total_sub_pixels - 1},
          value \in {0 - source_pixel_total - 1, 0 - 1, source_pixel_total},
          delta \in {0 - 1, 0, 1} :
           sub_to_source =
               WithLength(WithEntry(SubToSourceOf(total_sub_pixels, source_pixel_total,
                                                  r0, 1, 1),
                                    pos, value),
                          total_sub_pixels + delta)
    /\ \E pos \in {0 - 1, 0, total_sub_pixels - 1},
          value \in {0 - 1, image_pixel_total},
          delta \in {0 - 1, 0, 1} :
           sub_to_image =
               WithLength(WithEntry(SubToImageOf(total_sub_pixels, image_pixel_total,
                                                 sub_grid_size, "blocks"),
                                    pos, value),
                          total_sub_pixels + delta)
    /\ f = [r \in 0 .. (source_pixel_total - 1) |-> EmptyDict]
    /\ i = 0
    /\ mapping_pc = "loop"
    /\ CovarianceIdle
    /\ RegularizationIdle
    /\ DMatrixIdle
    /\ InversionIdle

MappingAnyNext == MappingStep \/ MappingRaise \/ MappingReturn

SpecMappingAnyInput == MappingAnyInit /\ [][MappingAnyNext]_vars

\* the preconditions of create_mapping_matrix
MappingPreconditions ==
    /\ Cardinality(DOMAIN sub_to_source) = total_sub_pixels
    /\ Cardinality(DOMAIN sub_to_image) = total_sub_pixels
    /\ \A k \in DOMAIN sub_to_source : sub_to_source[k] \in 0 .. (source_pixel_total - 1)
    /\ \A k \in DOMAIN sub_to_image : sub_to_image[k] \in 0 .. (image_pixel_total - 1)

\* C19: create_mapping_matrix returns a matrix only on arguments that meet its
\* preconditions: an entry of sub_to_source outside 0..source_pixel_total-1, an
\* entry of sub_to_image outside 0..image_pixel_total-1 or an array whose
\* length is not image_pixel_total * sub_grid_size^2 ends the call in an error.
C19_InvalidInputRejected ==
    /\ mapping_pc = "done" => MappingPreconditions
    /\ mapping_pc = "IndexError" => ~MappingPreconditions

\* ---------------------------------------------------------------------------
\* The dense inversion (autolens/inversion/inversions.py)
\*
\* Numbers.  The entries of the blurred mapping matrix, the image values and
\* the regularization matrix are whole numbers, the noise values are those of
\* DenseNoiseLevels.  The routines divide by the noise and by its square, so
\* the values they compute are held multiplied by a power of DenseNoiseScale
\* (a common multiple of the noise levels), which makes them whole numbers:
\*   flist                                   times DenseNoiseScale
\*   data_vector, curvature_matrix,
\*   curvature_reg_matrix                    times DenseNoiseScale^2
\* ---------------------------------------------------------------------------
DenseNoiseLevels == {1, 2}
DenseNoiseScale ==
    CHOOSE m \in DenseNoiseLevels : \A n \in DenseNoiseLevels : m % n = 0

\* the pixels on which the rows are positive: row o on `width + o * grow`
\* (mod NumPixels + 1) consecutive pixels (mod NumPixels), the first of them
\* being start + o * stride
RowFootprints(rows, width, grow, start, stride) ==
    [o \in 0 .. (rows - 1) |->
        {(start + o * stride + t) % NumPixels :
            t \in 0 .. (((width + o * grow) % (NumPixels + 1)) - 1)}]

\* blurred_mapping_matrix of `rows` image pixels: row o is positive on the
\* pixels of its footprint, with the entries 1 and 2 alternating
BlurredMappingMatrixOf(rows, footprint) ==
    [x \in (0 .. (rows - 1)) \X Pixels |->
        IF x[2] \in footprint[x[1]] THEN 1 + ((x[1] + x[2]) % 2) ELSE 0]

\* image: the values 1 and 2 alternating, starting with 1 + offset
ImageOf(rows, offset) == [o \in 0 .. (rows - 1) |-> 1 + ((o + offset) % 2)]

\* noise_map: the first noise level throughout, or the levels taking turns
NoiseMapOf(rows, step) ==
    [o \in 0 .. (rows - 1) |-> 1 + ((o * step) % Cardinality(DenseNoiseLevels))]

\* regularization_matrix (line 20): all zeros, the unit matrix, its negative,
\* or the differences of neighbouring pixels along the line
\* 0 - 1 - ... - NumPixels-1
RegularizationKinds == {"zero", "unit", "negative", "differences"}
RegularizationMatrixOf(kind) ==
    [x \in Pixels \X Pixels |->
        IF kind = "unit" THEN (IF x[1] = x[2] THEN 1 ELSE 0)
        ELSE IF kind = "negative" THEN (IF x[1] = x[2] THEN 0 - 1 ELSE 0)
        ELSE IF kind = "differences"
        THEN (IF x[1] = x[2]
              THEN Cardinality({q \in Pixels : q = x[1] + 1 \/ q = x[1] - 1})
              ELSE IF x[1] = x[2] + 1 \/ x[2] = x[1] + 1 THEN 0 - 1 ELSE 0)
        ELSE 0]

\* mapping_shape[0] and mapping_shape[1]
ImagePixelCount == Cardinality(DOMAIN noise_map)
ZeroVector == [r \in Pixels |-> 0]

\* the entry point the caller called, and the two properties of the Inversion
EntryPoint == "inversion_from_mapper_regularization_and_data"
LogDetProperties == {"log_det_curvature_reg_matrix_term",
                     "log_det_regularization_matrix_term"}

\* the call: lines 10-12, and np.zeros of line 39
InversionInit ==
    /\ \E rows \in 1 .. (MaxImagePixels + 1) :
          /\ \E width \in 0 .. NumPixels, grow \in 0 .. 1,
                start \in Pixels, stride \in 0 .. 1 :
                 blurred_mapping_matrix =
                     BlurredMappingMatrixOf(
                         rows, RowFootprints(rows, width, grow, start, stride))
          /\ \E offset \in 0 .. 1 : image = ImageOf(rows, offset)
          /\ \E step \in 0 .. 1 : noise_map = NoiseMapOf(rows, step)
    /\ \E kind \in RegularizationKinds : regularization_matrix = RegularizationMatrixOf(kind)
    /\ regularization_weights = <<>>
    /\ no_vertices = <<>>
    /\ pixel_pairs = <<>>
    /\ pair_pos = 0
    /\ regularization_pc = "idle"
    /\ data_vector = ZeroVector
    /\ flist = <<>> /\ iflist = <<>>
    /\ curvature_matrix = <<>>
    /\ curvature_reg_matrix = <<>>
    /\ solution_vector = <<>>
    /\ image_row = 0
    /\ inversion_pc = "data_vector"
    /\ raised = EmptyDict
    /\ scratch_accesses = {}
    /\ cholesky_attempts = EmptyDict
    /\ log_det_terms = EmptyDict
    /\ CovarianceIdle
    /\ MappingIdle
    /\ DMatrixIdle

\* Variant: the image term is divided by the noise, not by its square
data_term_noise_not_squared(image_index, pix_index) ==
    image[image_index] * blurred_mapping_matrix[<<image_index, pix_index>>]
        * (DenseNoiseScale \div noise_map[image_index]) * DenseNoiseScale

\* image[image_index] * blurred_mapping_matrix[image_index, pix_index]
\* / (noise_map[image_index] ** 2.0), lines 43-44 (times DenseNoiseScale^2)
data_term(image_index, pix_index) ==
    image[image_index] * blurred_mapping_matrix[<<image_index, pix_index>>]
        * (DenseNoiseScale \div noise_map[image_index])
        * (DenseNoiseScale \div noise_map[image_index])

\* one iteration of `for image_index` of the data vector, lines 41-44
DataVectorRow ==
    /\ inversion_pc = "data_vector"
    /\ image_row < ImagePixelCount
    /\ data_vector' = [pix_index \in Pixels |->
                          data_vector[pix_index] + data_term(image_row, pix_index)]
    /\ image_row' = image_row + 1
    /\ UNCHANGED <<blurred_mapping_matrix, image, noise_map, flist, iflist,
                   curvature_matrix, curvature_reg_matrix, solution_vector,
                   inversion_pc, raised, scratch_accesses, cholesky_attempts,
                   log_det_terms>>
    /\ UNCHANGED <<covariance_vars, mapping_vars, regularization_vars, d_matrix_vars>>

\* return data_vector (line 46); the scratch arrays of lines 50-51, as long as
\* the matrix has rows, and np.zeros of line 57
DataVectorReturn ==
    /\ inversion_pc = "data_vector"
    /\ image_row >= ImagePixelCount
    /\ flist' = [k \in 0 .. (ImagePixelCount - 1) |-> 0]
    /\ iflist' = [k \in 0 .. (ImagePixelCount - 1) |-> 0]
    /\ curvature_matrix' = ZeroMatrix
    /\ image_row' = 0
    /\ inversion_pc' = "curvature"
    /\ UNCHANGED <<blurred_mapping_matrix, image, noise_map, data_vector,
                   curvature_reg_matrix, solution_vector, raised, scratch_accesses,
                   cholesky_attempts, log_det_terms>>
    /\ UNCHANGED <<covariance_vars, mapping_vars, regularization_vars, d_matrix_vars>>

\* the pixels of the positive entries of row image_index, in the order of
\* `for pixel_index` (line 61)
positive_pixels(image_index) ==
    SortedSeq({r \in Pixels : blurred_mapping_matrix[<<image_index, r>>] > 0})

\* the value line 64 writes for the pixel (times DenseNoiseScale)
flist_value(image_index, pixel_index) ==
    blurred_mapping_matrix[<<image_index, pixel_index>>]
        * (DenseNoiseScale \div noise_map[image_index])

\* lines 62-65: index is incremented first, so the n-th positive entry of the
\* row is written at slot n; a slot that is no index of the array is not part
\* of it
scratch_after_writes(array, written) ==
    [k \in DOMAIN array |-> IF k \in DOMAIN written THEN written[k] ELSE array[k]]

\* array[k] at lines 70-72.  A slot past the end of the array is outside the
\* memory of the array: compiled without bounds checks the read yields what
\* happens to be there, the value just written ("kept") or another one, here 0
\* ("lost")
scratch_read(array, written, k, outcome) ==
    IF k \in DOMAIN array THEN array[k]
    ELSE IF outcome = "kept" THEN written[k] ELSE 0

\* curvature_matrix after lines 67-72 for a row with `index` positive entries
curvature_after_row(matrix, index, fl, ifl) ==
    IF index > 0
    THEN [x \in DOMAIN matrix |->
             LET hits == {s \in (0 .. index) \X (0 .. index) :
                              ifl[s[1]] = x[1] /\ ifl[s[2]] = x[2]}
             IN matrix[x] + SumOver(hits, [s \in hits |-> fl[s[1]] * fl[s[2]]])]
    ELSE matrix

\* one iteration of `for image_index` of the curvature routine, lines 59-72.
\* The routine is compiled by numba without bounds checks: a subscript past the
\* end of a scratch array is undefined there, and an IndexError when the
\* routine runs interpreted or with bounds checks.
CurvatureRow ==
    /\ inversion_pc = "curvature"
    /\ image_row < ImagePixelCount
    /\ LET pixels == positive_pixels(image_row)
           index == Len(pixels)
           written_f == [k \in 1 .. index |-> flist_value(image_row, pixels[k])]
           written_i == [k \in 1 .. index |-> pixels[k]]
           outcomes == IF index >= ImagePixelCount
                       THEN {"IndexError", "kept", "lost"}
                       ELSE {"in bounds"}
       IN \E outcome \in outcomes :
            /\ flist' = scratch_after_writes(flist, written_f)
            /\ iflist' = scratch_after_writes(iflist, written_i)
            /\ IF outcome = "IndexError"
               THEN /\ inversion_pc' = "raised"
                    /\ raised' = Put(raised, EntryPoint,
                                     [type |-> "IndexError", matrix |-> "none"])
                    /\ scratch_accesses' = scratch_accesses \cup (1 .. ImagePixelCount)
                    /\ UNCHANGED <<curvature_matrix, image_row>>
               ELSE /\ curvature_matrix' =
                          curvature_after_row(
                              curvature_matrix, index,
                              [k \in 0 .. index |->
                                  scratch_read(flist', written_f, k, outcome)],
                              [k \in 0 .. index |->
                                  scratch_read(iflist', written_i, k, outcome)])
                    /\ scratch_accesses' = scratch_accesses \cup
                          (IF index > 0 THEN 0 .. index ELSE {})
                    /\ image_row' = image_row + 1
                    /\ UNCHANGED <<inversion_pc, raised>>
    /\ UNCHANGED <<blurred_mapping_matrix, image, noise_map, data_vector,
                   curvature_reg_matrix, solution_vector, cholesky_attempts,
                   log_det_terms>>
    /\ UNCHANGED <<covariance_vars, mapping_vars, regularization_vars, d_matrix_vars>>

\* lines 74-76: `curvature_matrix[i, j] = curvature_matrix[j, i]` for every i
\* and j in turn.  For i < j the entry takes the value below the diagonal; when
\* the loop reaches j > i the entry (i, j) it copies has already been replaced
\* by (j, i), so the entries on and below the diagonal keep their values.
symmetrised(matrix) ==
    [x \in DOMAIN matrix |-> IF x[1] < x[2] THEN matrix[<<x[2], x[1]>>] ELSE matrix[x]]

\* lines 74-78, the end of the curvature routine
CurvatureReturn ==
    /\ inversion_pc = "curvature"
    /\ image_row >= ImagePixelCount
    /\ curvature_matrix' = symmetrised(curvature_matrix)
    /\ inversion_pc' = "solve"
    /\ UNCHANGED <<blurred_mapping_matrix, image, noise_map, data_vector, flist, iflist,
                   curvature_reg_matrix, solution_vector, image_row, raised,
                   scratch_accesses, cholesky_attempts, log_det_terms>>
    /\ UNCHANGED <<covariance_vars, mapping_vars, regularization_vars, d_matrix_vars>>

\* the determinant of the sub-matrix on the given rows and columns, expanded
\* along its first row
RECURSIVE Determinant(_, _, _)
Determinant(matrix, rows, cols) ==
    IF rows = {} THEN 1
    ELSE LET r == CHOOSE p \in rows : \A q \in rows : p <= q
         IN SumOver(cols,
                [c \in cols |->
                    (IF Cardinality({q \in cols : q < c}) % 2 = 0 THEN 1 ELSE 0 - 1)
                        * matrix[<<r, c>>]
                        * Determinant(matrix, rows \ {r}, cols \ {c})])

\* regularization_matrix in the unit of curvature_matrix
InCurvatureUnits(matrix) ==
    [x \in DOMAIN matrix |-> DenseNoiseScale * DenseNoiseScale * matrix[x]]

\* Variant: the sum is its first operand
np_add_first_operand(A, B) == A

\* np.add(A, B), line 23
np_add(A, B) == [x \in DOMAIN A |-> A[x] + B[x]]

\* np.linalg.solve raises LinAlgError on a singular matrix
Singular(matrix) == Determinant(matrix, Pixels, Pixels) = 0

\* np.linalg.solve(A, b) on a non-singular A: x[j] is the determinant of A
\* with column j replaced by b, over the determinant of A
linalg_solve(A, b) ==
    [numerators |->
        [j \in Pixels |->
            Determinant([x \in DOMAIN A |-> IF x[2] = j THEN b[x[1]] ELSE A[x]],
                        Pixels, Pixels)],
     denominator |-> Determinant(A, Pixels, Pixels)]

\* lines 20-29: the regularization matrix is fetched and added, the system is
\* solved and the Inversion is constructed; no exception is caught
Solve ==
    /\ inversion_pc = "solve"
    /\ curvature_reg_matrix' =
           np_add(curvature_matrix, InCurvatureUnits(regularization_matrix))
    /\ IF Singular(curvature_reg_matrix')
       THEN /\ inversion_pc' = "raised"
            /\ raised' = Put(raised, EntryPoint,
                             [type |-> "LinAlgError", matrix |-> "none"])
            /\ UNCHANGED solution_vector
       ELSE /\ inversion_pc' = "returned"
            /\ solution_vector' = linalg_solve(curvature_reg_matrix', data_vector)
            /\ UNCHANGED raised
    /\ UNCHANGED <<blurred_mapping_matrix, image, noise_map, data_vector, flist, iflist,
                   curvature_matrix, image_row, scratch_accesses, cholesky_attempts,
                   log_det_terms>>
    /\ UNCHANGED <<covariance_vars, mapping_vars, regularization_vars, d_matrix_vars>>

\* np.linalg.cholesky succeeds on the positive-definite matrices: those whose
\* leading principal minors are all positive
PositiveDefinite(matrix) ==
    \A k \in Pixels : Determinant(matrix, 0 .. k, 0 .. k) > 0

\* Variant: a failed decomposition is attempted again and 0.0 is returned
log_determinant_retried(matrix) ==
    IF PositiveDefinite(matrix)
    THEN [attempts |-> 1, raises |-> FALSE,
          log_of |-> Determinant(matrix, Pixels, Pixels)]
    ELSE [attempts |-> 2, raises |-> FALSE, log_of |-> 1]

\* log_determinant_of_matrix_cholesky, lines 146-165: one call of
\* np.linalg.cholesky; 2 * sum(log(diag(L))), which is the logarithm of the
\* determinant, or exc.InversionException() in place of LinAlgError
log_determinant_of_matrix_cholesky(matrix) ==
    IF PositiveDefinite(matrix)
    THEN [attempts |-> 1, raises |-> FALSE,
          log_of |-> Determinant(matrix, Pixels, Pixels)]
    ELSE [attempts |-> 1, raises |-> TRUE, log_of |-> 0]

\* the matrix a property passes on, lines 138-144
MatrixOfProperty(name) ==
    IF name = "log_det_curvature_reg_matrix_term" THEN curvature_reg_matrix
    ELSE regularization_matrix

\* the caller reads one of the two properties of the Inversion it was returned
LogDetTerm ==
    /\ inversion_pc = "returned"
    /\ \E name \in LogDetProperties \ DOMAIN cholesky_attempts :
         LET result == log_determinant_of_matrix_cholesky(MatrixOfProperty(name))
         IN /\ cholesky_attempts' = Put(cholesky_attempts, name, result.attempts)
            /\ IF result.raises
               THEN /\ raised' = Put(raised, name,
                                     [type |-> "InversionException", matrix |-> "none"])
                    /\ UNCHANGED log_det_terms
               ELSE /\ log_det_terms' = Put(log_det_terms, name, result.log_of)
                    /\ UNCHANGED raised
    /\ UNCHANGED <<blurred_mapping_matrix, image, noise_map, data_vector, flist, iflist,
                   curvature_matrix, curvature_reg_matrix, solution_vector, image_row,
                   inversion_pc, scratch_accesses>>
    /\ UNCHANGED <<covariance_vars, mapping_vars, regularization_vars, d_matrix_vars>>

InversionNext ==
    \/ DataVectorRow
    \/ DataVectorReturn
    \/ CurvatureRow
    \/ CurvatureReturn
    \/ Solve
    \/ LogDetTerm

SpecInversion == InversionInit /\ [][InversionNext]_vars

\* ---------------------------------------------------------------------------
\* Properties of the dense routines
\* ---------------------------------------------------------------------------
\* curvature_matrix_from_blurred_mapping_matrix has returned
CurvatureReturned == inversion_pc \in {"solve", "returned"} \/ curvature_reg_matrix # <<>>

\* sum over the image pixels o of M[o,i] * M[o,j] / noise[o]^2
\* (times DenseNoiseScale^2)
TrueCurvatureScaled(a, b) ==
    SumOver(DOMAIN noise_map,
            [o \in DOMAIN noise_map |->
                blurred_mapping_matrix[<<o, a>>] * blurred_mapping_matrix[<<o, b>>]
                    * (DenseNoiseScale \div noise_map[o])
                    * (DenseNoiseScale \div noise_map[o])])

\* C12: for every blurred mapping matrix with non-negative entries and every
\* positive noise map the curvature routine returns, and entry (i, j) of the
\* matrix it returns is the sum over the image pixels o of
\* M[o,i] * M[o,j] / noise[o]^2.
C12_CurvatureEntries ==
    /\ ~(EntryPoint \in DOMAIN raised /\ raised[EntryPoint].type = "IndexError")
    /\ CurvatureReturned =>
           \A a, b \in Pixels : curvature_matrix[<<a, b>>] = TrueCurvatureScaled(a, b)

\* sum over the image pixels o of image[o] * M[o,r] / noise[o]^2
\* (times DenseNoiseScale^2)
TrueDenseDataScaled(r) ==
    SumOver(DOMAIN noise_map,
            [o \in DOMAIN noise_map |->
                image[o] * blurred_mapping_matrix[<<o, r>>]
                    * (DenseNoiseScale \div noise_map[o])
                    * (DenseNoiseScale \div noise_map[o])])

\* C13: the data vector the dense routine returns has, for every
\* reconstruction pixel r, d[r] = sum over the image pixels o of
\* image[o] * M[o,r] / noise[o]^2.
C13_DenseDataVector ==
    inversion_pc \notin {"idle", "data_vector"} =>
        \A r \in Pixels : data_vector[r] = TrueDenseDataScaled(r)

C13_Witness ==
    /\ inversion_pc = "curvature"
    /\ \E r \in Pixels, o, q \in DOMAIN noise_map :
          /\ noise_map[o] # noise_map[q]
          /\ image[o] # image[q]
          /\ blurred_mapping_matrix[<<o, r>>] > 0
          /\ blurred_mapping_matrix[<<q, r>>] > 0
          /\ data_vector[r] = TrueDenseDataScaled(r)
    /\ \E r \in Pixels : data_vector[r] = 0

\* C15: the solution vector x of a returned Inversion satisfies
\* (curvature_matrix + regularization_matrix) x = data_vector, the sum being
\* the entrywise sum stored as curvature_reg_matrix and the data vector the
\* one of the call's blurred mapping matrix, image and noise map.
C15_SolutionSolvesSystem ==
    inversion_pc = "returned" =>
        /\ \A x \in Pixels \X Pixels :
               curvature_reg_matrix[x] =
                   curvature_matrix[x]
                       + DenseNoiseScale * DenseNoiseScale * regularization_matrix[x]
        /\ \A r \in Pixels : data_vector[r] = TrueDenseDataScaled(r)
        /\ solution_vector.denominator # 0
        /\ \A r \in Pixels :
               SumOver(Pixels,
                       [c \in Pixels |->
                           (curvature_matrix[<<r, c>>]
                                + DenseNoiseScale * DenseNoiseScale
                                      * regularization_matrix[<<r, c>>])
                               * solution_vector.numerators[c]])
                   = data_vector[r] * solution_vector.denominator

C15_Witness ==
    /\ inversion_pc = "returned"
    /\ \E x \in Pixels \X Pixels : x[1] # x[2] /\ regularization_matrix[x] # 0
    /\ \E x \in Pixels \X Pixels : x[1] # x[2] /\ curvature_matrix[x] # 0
    /\ \E r, c \in Pixels :
          /\ solution_vector.numerators[r] # 0
          /\ solution_vector.numerators[c] # solution_vector.numerators[r]
    /\ solution_vector.denominator > 1

\* a property whose matrix has no Cholesky decomposition ends in
\* exc.InversionException after one attempt, and returns no value
C16_State ==
    \A name \in DOMAIN cholesky_attempts :
        ~PositiveDefinite(MatrixOfProperty(name)) =>
            /\ name \in DOMAIN raised
            /\ raised[name].type = "InversionException"
            /\ name \notin DOMAIN log_det_terms
            /\ cholesky_attempts[name] = 1

\* reading a property leaves the fields of the Inversion as they are
C16_Step ==
    inversion_pc = "returned" =>
        UNCHANGED <<blurred_mapping_matrix, regularization_matrix, curvature_matrix,
                    curvature_reg_matrix, solution_vector>>

\* C16: log_det_curvature_reg_matrix_term and log_det_regularization_matrix_term
\* end in exc.InversionException whenever their matrix (F+H, respectively H) is
\* not positive-definite; the decomposition is attempted once, no value is
\* returned, and the matrices and the solution vector of the Inversion are
\* left unchanged.
C16_CholeskyFailure == []C16_State /\ [][C16_Step]_vars

C16_Witness ==
    /\ inversion_pc = "returned"
    /\ DOMAIN cholesky_attempts = LogDetProperties
    /\ \E name \in LogDetProperties :
          /\ name \in DOMAIN raised
          /\ raised[name].type = "InversionException"
          /\ cholesky_attempts[name] = 1
    /\ \E name \in LogDetProperties :
          /\ name \in DOMAIN log_det_terms
          /\ log_det_terms[name] > 1

\* np.linalg.solve was reached
SolveReached == curvature_reg_matrix # <<>>

\* C17: when the regularization matrix is all zeros and the curvature matrix
\* is singular, the call raises InversionError and returns no Inversion.
C17_SingularRaisesInversionError ==
    (/\ SolveReached
     /\ \A x \in Pixels \X Pixels : regularization_matrix[x] = 0
     /\ Singular(curvature_matrix)) =>
        /\ inversion_pc = "raised"
        /\ solution_vector = <<>>
        /\ raised[EntryPoint].type = "InversionException"

\* the numerical failures that reached the caller
NumericalFailures == {name \in DOMAIN raised : raised[name].type # "IndexError"}

\* C18: every numerical failure (singular solve of F+H, failed Cholesky of
\* F+H, failed Cholesky of H) reaches the caller as an InversionError whose
\* value names the matrix that failed, so that the failures can be told apart.
C18_TypedFailures ==
    /\ \A name \in NumericalFailures :
          /\ raised[name].type = "InversionException"
          /\ raised[name].matrix # "none"
    /\ \A name, other \in NumericalFailures :
          name # other => raised[name] # raised[other]

TraversalFinished(s) == pc \in {"non_contiguous", "done"} \/ (pc # "idle" /\ s < source_index)

\* the pixels t # s joined to s by a path of the graph on which every pixel
\* after s has a covariance with s above the limit: the least set closed under
\* taking such neighbours
RECURSIVE GrowPatch(_, _)
GrowPatch(s, patch) ==
    LET more == {t \in Pixels \ (patch \cup {s}) :
                    /\ calculate_covariance(s, t) > neighbour_search_limit
                    /\ \E v \in patch \cup {s} : t \in Range(graph[v])}
    IN IF more = {} THEN patch ELSE GrowPatch(s, patch \cup more)

ContiguousPatch(s) == GrowPatch(s, {})

\* C24: after find_contiguous_covariances(s) the neighbour list of s holds,
\* each exactly once, precisely the pixels t # s joined to s by a path on which
\* every pixel after s has a covariance with s strictly above the limit, and
\* (s, t) was recorded by that pass for exactly those t.
C24_ContiguousPatch ==
    \A s \in Pixels :
        TraversalFinished(s) =>
            /\ Range(neighbour_lists[s]) = ContiguousPatch(s)
            /\ Len(neighbour_lists[s]) = Cardinality(ContiguousPatch(s))
            /\ {t \in Pixels : <<s, t>> \in contiguous_keys} = ContiguousPatch(s)

C24_Witness ==
    /\ pc = "done"
    /\ \E s \in Pixels :
          /\ Len(neighbour_lists[s]) = 2
          /\ \E t \in ContiguousPatch(s) : t \notin Range(graph[s])
    /\ \E s, t \in Pixels :
          /\ t \in Range(graph[s])
          /\ t \notin ContiguousPatch(s)
    /\ \E s, t, v \in Pixels :
          /\ s # t /\ t \notin ContiguousPatch(s)
          /\ calculate_covariance(s, t) > neighbour_search_limit
          /\ v \in Range(graph[s]) /\ t \in Range(graph[v])

\* every key of non_zero_covariances is a key of calculated_covariances, with
\* the same value
C27_State ==
    \A key \in Keys :
        /\ key \in DOMAIN calculated_covariances
        /\ calculated_covariances[key] = non_zero_covariances[key]

\* a step removes no key from either map and changes no value of one
C27_Step ==
    /\ \A key \in DOMAIN calculated_covariances :
          /\ key \in DOMAIN calculated_covariances'
          /\ calculated_covariances'[key] = calculated_covariances[key]
    /\ \A key \in DOMAIN non_zero_covariances :
          /\ key \in DOMAIN non_zero_covariances'
          /\ non_zero_covariances'[key] = non_zero_covariances[key]

\* C27: at every point of a create_covariance_matrix run every key of
\* non_zero_covariances is a key of calculated_covariances with the same
\* value, and a value once stored under a key of either map never changes:
\* both maps only grow.
C27_MapsOnlyGrow == []C27_State /\ [][C27_Step]_vars

C27_Witness ==
    /\ pc = "done"
    /\ \E key \in DOMAIN calculated_covariances : key \notin Keys
    /\ \E key \in contiguous_keys :
          /\ <<key[2], key[1]>> \in contiguous_keys
          /\ non_zero_covariances[key] > 0
    /\ Len(calculate_calls) < Cardinality(DOMAIN calculated_covariances)

\* C28 as stated: every off-diagonal entry of the returned map has a value
\* strictly greater than neighbour_search_limit, whichever pass recorded it.
C28_AboveLimit ==
    pc = "done" =>
        \A key \in Keys :
            key[1] # key[2] => non_zero_covariances[key] > neighbour_search_limit

\* C28 amended: every off-diagonal entry recorded by the contiguous pass has a
\* value strictly greater than neighbour_search_limit; an entry recorded by
\* the non-contiguous pass alone has a value strictly greater than 0, which
\* may be at or below the limit.
C28_AboveLimitOrZero ==
    pc = "done" =>
        \A key \in Keys :
            key[1] # key[2] =>
                IF key \in contiguous_keys
                THEN non_zero_covariances[key] > neighbour_search_limit
                ELSE non_zero_covariances[key] > 0

C28_Witness ==
    /\ pc = "done"
    /\ neighbour_search_limit > 0
    /\ \E key \in Keys :
          /\ key[1] # key[2]
          /\ key \notin contiguous_keys
          /\ non_zero_covariances[key] > 0
          /\ non_zero_covariances[key] <= neighbour_search_limit
    /\ \E key \in contiguous_keys : non_zero_covariances[key] > neighbour_search_limit

\* ---------------------------------------------------------------------------
\* Further properties of the dense curvature routine and of the regularization
\* matrix
\* ---------------------------------------------------------------------------
\* C29: in curvature_matrix_from_blurred_mapping_matrix every read and write
\* of the scratch arrays flist and iflist uses an index within 0..L-1, L being
\* their length (the number of rows of the mapping matrix), for every mapping
\* matrix, including one with a row whose number of positive entries is equal
\* to or larger than the number of rows.
C29_ScratchInBounds ==
    \A k \in scratch_accesses : 0 <= k /\ k < ImagePixelCount

RowSum(matrix, r) == SumOver(Pixels, [c \in Pixels |-> matrix[<<r, c>>]])

ColumnSum(matrix, c) == SumOver(Pixels, [r \in Pixels |-> matrix[<<r, c>>]])

\* the pixels that appear in a pair
PairedPixels == {p \in Pixels : \E n \in DOMAIN pixel_pairs :
                                   p \in {pixel_pairs[n][1], pixel_pairs[n][2]}}

\* C30: for every weight vector and every list of neighbour pairs, each row
\* and each column of the regularization matrix H built by the per-edge
\* accumulation sums to zero, and a pixel that appears in no pair has an
\* all-zero row and column.
C30_ZeroSums ==
    regularization_pc = "done" =>
        /\ \A p \in Pixels : /\ RowSum(regularization_matrix, p) = 0
                             /\ ColumnSum(regularization_matrix, p) = 0
        /\ \A p \in Pixels \ PairedPixels :
              \A q \in Pixels : /\ regularization_matrix[<<p, q>>] = 0
                                /\ regularization_matrix[<<q, p>>] = 0

C30_Witness ==
    /\ regularization_pc = "done"
    /\ Pixels \ PairedPixels # {}
    /\ \E p, q \in PairedPixels :
          /\ regularization_weights[p] # regularization_weights[q]
          /\ regularization_matrix[<<p, q>>] < 0
          /\ regularization_matrix[<<p, p>>] > 0
    /\ \A p \in Pixels : RowSum(regularization_matrix, p) = 0

\* ---------------------------------------------------------------------------
\* create_covariance_matrix on graphs with self-loops and repeated entries
\* ---------------------------------------------------------------------------
\* graph as [[int]]: the neighbour list of GraphOf, with the pixel itself put
\* in front when self_loops, and every entry listed twice when repeated
GraphWith(edges, self_loops, repeated) ==
    [p \in Pixels |->
        LET base == GraphOf(edges)[p]
            looped == IF self_loops THEN <<p>> \o base ELSE base
        IN IF repeated THEN looped \o looped ELSE looped]

\* CovarianceMatrixGenerator.__init__ (lines 154-166) on these graphs; every
\* pixel contributes to all observation pixels or to none
GraphsInit ==
    /\ \E footprint \in [Pixels -> {{}, Obs}], shift \in 0 .. MaxLimit :
           pixel_maps = PixelMapsOf(footprint, shift)
    /\ noise_vector = NoiseVectorOf(0)
    /\ \E edges \in SUBSET RingEdges, self_loops \in BOOLEAN, repeated \in BOOLEAN :
           graph = GraphWith(edges, self_loops, repeated)
    /\ neighbour_search_limit \in 0 .. MaxLimit
    /\ calculated_covariances = EmptyDict
    /\ non_zero_covariances = EmptyDict
    /\ neighbour_lists = [p \in Pixels |-> <<>>]
    /\ queue = <<>>
    /\ visited = {}
    /\ pc = IF NumPixels > 0 THEN "seed" ELSE "non_contiguous"
    /\ source_index = 0
    /\ l_pos = 0 /\ a_pos = 1 /\ b_pos = 2
    /\ calculate_calls = <<>>
    /\ evaluated = {}
    /\ enqueued = {}
    /\ contiguous_keys = {}
    /\ searches = <<>>
    /\ MappingIdle
    /\ RegularizationIdle
    /\ DMatrixIdle
    /\ InversionIdle

SpecGraphs == GraphsInit /\ [][Next]_vars

\* create_covariance_matrix is a sequential run that takes its next step as
\* long as it has one
SpecGraphsLive == SpecGraphs /\ WF_vars(Next)

\* the candidates neighbours() has yielded in the traversal of seed s
Yielded(s) == {e[2] : e \in {y \in evaluated : y[1] = s}}

HasSelfLoop == \E p \in Pixels : p \in Range(graph[p])

HasRepeatedEntry ==
    \E p \in Pixels : \E m, n \in DOMAIN graph[p] : m # n /\ graph[p][m] = graph[p][n]

HasCycle == \A p \in Pixels : \E q \in Pixels \ {p} : q \in Range(graph[p])

\* C23: within one BreadthFirstSearch traversal, a pixel that has been passed
\* to add_neighbours_of or has already been enqueued is never yielded by
\* neighbours() afterwards: the pixels waiting in the queue, which are the
\* ones neighbours() is going to yield, are all different, none of them is the
\* seed and none of them has been yielded before, also when the graph contains
\* cycles, self-loops or duplicate neighbour entries.
C23_NoPixelYieldedTwice ==
    pc = "loop" =>
        /\ \A m, n \in DOMAIN queue : m # n => queue[m] # queue[n]
        /\ source_index \notin Range(queue)
        /\ Range(queue) \cap Yielded(source_index) = {}
        /\ source_index \notin Yielded(source_index)
        /\ Range(queue) \cup Yielded(source_index) \cup {source_index} \subseteq visited

C23_Witness ==
    /\ pc = "loop"
    /\ HasSelfLoop /\ HasRepeatedEntry /\ HasCycle
    /\ Yielded(source_index) # {}
    /\ queue # <<>>
    /\ \E p \in Yielded(source_index) : source_index \in Range(graph[p])
    /\ \E p \in Yielded(source_index) : Head(queue) \in Range(graph[p])

\* the candidates yielded and the candidates still to be yielded never number
\* more than NumPixels - 1 in the traversal of a seed
C25_State ==
    /\ \A s \in Pixels : Cardinality(Yielded(s)) <= NumPixels - 1
    /\ pc = "loop" =>
          Cardinality(Yielded(source_index)) + Len(queue) <= NumPixels - 1

\* C25: for every finite adjacency graph (including cyclic graphs and graphs
\* where every covariance passes the threshold), each per-seed traversal
\* terminates after evaluating at most N-1 candidates, and
\* create_covariance_matrix as a whole eventually returns.
C25_Terminates == []C25_State /\ <>(pc = "done")

C25_Witness ==
    /\ pc = "done"
    /\ HasCycle /\ HasSelfLoop /\ HasRepeatedEntry
    /\ \A s \in Pixels : Cardinality(Yielded(s)) = NumPixels - 1
    /\ \A e \in evaluated : e[3] > neighbour_search_limit

\* ---------------------------------------------------------------------------
\* The sparse and the dense curvature path on the same input:
\* create_covariance_matrix(pixel_maps, noise_vector, graph, limit) and
\* curvature_matrix_from_blurred_mapping_matrix(blurred_mapping_matrix,
\* noise_map), where blurred_mapping_matrix[o, r] is the contribution weight
\* of pixel r to observation pixel o and noise_map is noise_vector.
\*
\* Numbers.  The weights are multiples of 1/WeightDen, in the pixel maps and
\* in the matrix alike: the entry h of blurred_mapping_matrix stands for
\* h/WeightDen, so that curvature_matrix holds the values of the dense routine
\* times WeightDen^2 * DenseNoiseScale^2.
\* ---------------------------------------------------------------------------
\* the dense matrix of the pixel maps: M[o, r] = pixel_maps[r][o], 0 where
\* pixel r does not contribute to o
MappingMatrixOf(maps) ==
    [x \in Obs \X Pixels |->
        IF x[1] \in DOMAIN maps[x[2]] THEN maps[x[2]][x[1]] ELSE 0]

\* the two calls: CovarianceMatrixGenerator.__init__ (lines 154-166) and
\* lines 50-51 and 57 of inversions.py
BothPathsInit ==
    /\ \E footprint \in [Pixels -> SUBSET Obs], shift \in 0 .. (MaxWeight - 1) :
           pixel_maps = PixelMapsOf(footprint, shift)
    /\ \E step \in 0 .. 1 : noise_vector = NoiseMapOf(Cardinality(Obs), step)
    /\ \E edges \in SUBSET RingEdges : graph = GraphOf(edges)
    /\ neighbour_search_limit = 0
    /\ calculated_covariances = EmptyDict
    /\ non_zero_covariances = EmptyDict
    /\ neighbour_lists = [p \in Pixels |-> <<>>]
    /\ queue = <<>>
    /\ visited = {}
    /\ pc = IF NumPixels > 0 THEN "seed" ELSE "non_contiguous"
    /\ source_index = 0
    /\ l_pos = 0 /\ a_pos = 1 /\ b_pos = 2
    /\ calculate_calls = <<>>
    /\ evaluated = {}
    /\ enqueued = {}
    /\ contiguous_keys = {}
    /\ searches = <<>>
    /\ blurred_mapping_matrix = MappingMatrixOf(pixel_maps)
    /\ noise_map = noise_vector
    /\ image = ImageOf(Cardinality(Obs), 0)
    /\ data_vector = ZeroVector
    /\ flist = [k \in Obs |-> 0]
    /\ iflist = [k \in Obs |-> 0]
    /\ curvature_matrix = ZeroMatrix
    /\ curvature_reg_matrix = <<>>
    /\ solution_vector = <<>>
    /\ image_row = 0
    /\ inversion_pc = "curvature"
    /\ raised = EmptyDict
    /\ scratch_accesses = {}
    /\ cholesky_attempts = EmptyDict
    /\ log_det_terms = EmptyDict
    /\ MappingIdle
    /\ RegularizationIdle
    /\ DMatrixIdle

\* the sparse generator runs first, the dense routine after it has returned
BothPathsNext ==
    \/ Next
    \/ pc = "done" /\ CurvatureRow
    \/ pc = "done" /\ CurvatureReturn

SpecBothPaths == BothPathsInit /\ [][BothPathsNext]_vars

\* C21: the sparse and dense curvature paths agree: for the same per-pixel
\* contribution weights and the same noise vector, every entry (i, j) recorded
\* by create_covariance_matrix equals entry (i, j) of the matrix returned by
\* curvature_matrix_from_blurred_mapping_matrix.
C21_PathsAgree ==
    (pc = "done" /\ CurvatureReturned) =>
        \A key \in Keys :
            non_zero_covariances[key] * WeightDen * WeightDen
                * DenseNoiseScale * DenseNoiseScale
              = curvature_matrix[key]

\* the input pixel_maps = [{0: 0.5}, {1: 1.5}, {}], noise_vector = [1, 1]
\* without edges: no row of the matrix has two positive entries, and the two
\* paths differ on the entry (0, 0)
C21_FloorDivisionCase ==
    /\ pc = "done" /\ CurvatureReturned
    /\ \A o \in Obs : Cardinality({r \in Pixels : blurred_mapping_matrix[<<o, r>>] > 0}) <= 1
    /\ \A o \in Obs : noise_map[o] = 1
    /\ curvature_matrix[<<0, 0>>] = DenseNoiseScale * DenseNoiseScale
    /\ non_zero_covariances[<<0, 0>>] = 0

\* ---------------------------------------------------------------------------
\* The generator with its searches scheduled freely:
\* find_contiguous_covariances(source_index) is called once for every seed, in
\* any order, and the iterations of the calls take turns.  Every call has its
\* own BreadthFirstSearch (line 200); calculated_covariances,
\* non_zero_covariances and neighbour_lists are the generator's.  When all
\* calls have ended find_all_non_contiguous_covariances runs.  The order
\* 0, 1, ... with every call run to its end before the next one starts is the
\* order of find_all_contiguous_covariances (lines 183-184).
\* ---------------------------------------------------------------------------
\* CovarianceMatrixGenerator.__init__ (lines 154-166); every pixel contributes
\* to all observation pixels or to none
ScheduledInit ==
    /\ \E footprint \in [Pixels -> {{}, Obs}] : pixel_maps = PixelMapsOf(footprint, 0)
    /\ noise_vector = NoiseVectorOf(0)
    /\ \E edges \in SUBSET RingEdges : graph = GraphOf(edges)
    /\ neighbour_search_limit \in 0 .. MaxLimit
    /\ calculated_covariances = EmptyDict
    /\ non_zero_covariances = EmptyDict
    /\ neighbour_lists = [p \in Pixels |-> <<>>]
    /\ queue = <<>>
    /\ visited = {}
    /\ pc = "contiguous"
    /\ source_index = 0
    /\ l_pos = 0 /\ a_pos = 1 /\ b_pos = 2
    /\ calculate_calls = <<>>
    /\ evaluated = {}
    /\ enqueued = {}
    /\ contiguous_keys = {}
    /\ searches = [p \in Pixels |-> [state |-> "waiting", queue |-> <<>>,
                                     visited |-> {}, interleaved |-> FALSE]]
    /\ MappingIdle
    /\ RegularizationIdle
    /\ DMatrixIdle
    /\ InversionIdle

\* find_contiguous_covariances(s), lines 198-201
ScheduledStart(s) ==
    /\ pc = "contiguous"
    /\ searches[s].state = "waiting"
    /\ LET r == add_covariance_for_indices(calculated_covariances, s, s)
           bfs == add_neighbours_of(s, {}, <<>>)
       IN /\ calculated_covariances' = r.cache
          /\ non_zero_covariances' = record_diagonal(non_zero_covariances, s, r.value)
          /\ searches' = [searches EXCEPT ![s] = [state |-> "running",
                                                  queue |-> bfs.queue,
                                                  visited |-> bfs.visited,
                                                  interleaved |-> FALSE]]
    /\ UNCHANGED <<inputs, neighbour_lists, queue, visited, pc, source_index,
                   l_pos, a_pos, b_pos, calculate_calls, evaluated, enqueued,
                   contiguous_keys>>
    /\ UNCHANGED <<mapping_vars, regularization_vars, d_matrix_vars, inversion_vars>>

\* one iteration of `for index in bfs.neighbours()` of the call for s, lines 203-208
ScheduledStep(s) ==
    /\ pc = "contiguous"
    /\ searches[s].state = "running"
    /\ searches[s].queue # <<>>
    /\ LET index == Head(searches[s].queue)
           r == add_covariance_for_indices(calculated_covariances, s, index)
           result == r.value
           passed == passes_threshold(result, neighbour_search_limit)
           bfs == bfs_after_candidate(passed, index, searches[s].visited,
                                      Tail(searches[s].queue))
       IN /\ calculated_covariances' = r.cache
          /\ evaluated' = evaluated \cup {<<s, index, result>>}
          /\ searches' = [searches EXCEPT ![s] =
                             [state |-> "running",
                              queue |-> bfs.queue,
                              visited |-> bfs.visited,
                              interleaved |->
                                  \/ searches[s].interleaved
                                  \/ \E t \in Pixels \ {s} :
                                         searches[t].state = "running"]]
          /\ IF passed
             THEN /\ LET appended == append_neighbour(neighbour_lists, graph, s, index)
                     IN /\ neighbour_lists' = appended.neighbour_lists
                        /\ graph' = appended.graph
                  /\ non_zero_covariances' = Put(non_zero_covariances, <<s, index>>, result)
                  /\ contiguous_keys' = contiguous_keys \cup {<<s, index>>}
             ELSE UNCHANGED <<neighbour_lists, graph, non_zero_covariances,
                              contiguous_keys>>
    /\ UNCHANGED <<pixel_maps, noise_vector, neighbour_search_limit, queue, visited,
                   pc, source_index, l_pos, a_pos, b_pos, calculate_calls, enqueued>>
    /\ UNCHANGED <<mapping_vars, regularization_vars, d_matrix_vars, inversion_vars>>

\* the search of the call for s is exhausted, the call returns
ScheduledEnd(s) ==
    /\ pc = "contiguous"
    /\ searches[s].state = "running"
    /\ searches[s].queue = <<>>
    /\ searches' = [searches EXCEPT ![s].state = "finished"]
    /\ UNCHANGED <<inputs, calculated_covariances, non_zero_covariances, neighbour_lists,
                   queue, visited, pc, source_index, l_pos, a_pos, b_pos,
                   calculate_calls, evaluated, enqueued, contiguous_keys>>
    /\ UNCHANGED <<mapping_vars, regularization_vars, d_matrix_vars, inversion_vars>>

\* all calls have returned: on to find_all_non_contiguous_covariances (line 132)
ScheduledJoin ==
    /\ pc = "contiguous"
    /\ \A s \in Pixels : searches[s].state = "finished"
    /\ pc' = "non_contiguous"
    /\ l_pos' = FirstList(neighbour_lists, 0)
    /\ UNCHANGED <<inputs, calculated_covariances, non_zero_covariances, neighbour_lists,
                   queue, visited, source_index, a_pos, b_pos,
                   calculate_calls, evaluated, enqueued, contiguous_keys, searches>>
    /\ UNCHANGED <<mapping_vars, regularization_vars, d_matrix_vars, inversion_vars>>

ScheduledNext ==
    \/ \E s \in Pixels : ScheduledStart(s)
    \/ \E s \in Pixels : ScheduledStep(s)
    \/ \E s \in Pixels : ScheduledEnd(s)
    \/ ScheduledJoin
    \/ NonContiguousStep
    \/ Return

SpecScheduled == ScheduledInit /\ [][ScheduledNext]_vars

\* The map of the inputs: the diagonal, the pairs of a seed with the pixels of
\* its contiguous patch, and the pairs of different pixels of one patch that
\* pass the test of the second pass; each with the covariance of the pair.
\* Every run of a given input that ends with this map ends with the same map,
\* the run in the order 0..N-1 being one of them.
ExpectedKeys ==
    {<<s, s>> : s \in Pixels}
      \cup {x \in Pixels \X Pixels : x[2] \in ContiguousPatch(x[1])}
      \cup {x \in Pixels \X Pixels :
               /\ x[1] # x[2]
               /\ is_recorded_non_contiguous(calculate_covariance(x[1], x[2]))
               /\ \E l \in Pixels : {x[1], x[2]} \subseteq ContiguousPatch(l)}

ExpectedMap == [key \in ExpectedKeys |-> calculate_covariance(key[1], key[2])]

C26_State == pc = "done" => non_zero_covariances = ExpectedMap

\* a step changes the neighbour list of one seed at most, by appending to it,
\* and this seed is the one whose search took the step
C26_Step ==
    \A s \in Pixels :
        neighbour_lists'[s] # neighbour_lists[s] =>
            /\ searches[s].state = "running"
            /\ searches'[s].queue # searches[s].queue
            /\ \E index \in Pixels : neighbour_lists'[s] = Append(neighbour_lists[s], index)
            /\ \A t \in Pixels \ {s} : neighbour_lists'[t] = neighbour_lists[t]

\* C26: the result of the covariance generator does not depend on how seed
\* traversals are scheduled: running the per-seed traversals in any order, or
\* interleaving their steps while sharing calculated_covariances and
\* non_zero_covariances, and then running the non-contiguous pass, yields the
\* same key set and the same values as the sequential order 0..N-1, and each
\* traversal appends only to its own seed's neighbour list.
C26_ScheduleIndependent == []C26_State /\ [][C26_Step]_vars

\* the sequential order 0..N-1 ends with the same map (under Spec)
SequentialOrderYieldsExpectedMap == pc = "done" => non_zero_covariances = ExpectedMap

\* a run that went through the second pass and in which the searches of two
\* seeds took steps while the other one was running, each of them recording
\* a pair
C26_Witness ==
    /\ pc = "done"
    /\ \E s \in Pixels : Len(neighbour_lists[s]) >= 2
    /\ \E key \in Keys : key[1] # key[2] /\ key \notin contiguous_keys
    /\ \E s, t \in Pixels :
          /\ s # t
          /\ searches[s].interleaved /\ searches[t].interleaved
          /\ <<s, t>> \in contiguous_keys /\ <<t, s>> \in contiguous_keys
    /\ non_zero_covariances = ExpectedMap

====
